---------------------------- MODULE Spec2Model ----------------------------
(***************************************************************************)
(* Model of the build-document resolver of marlin_auto_build               *)
(* (src/src/prepare.ts): loadBuilds and the functions it calls.            *)
(*                                                                         *)
(* Representation.  A JavaScript value that may be undefined is the string *)
(* Undef when unset.  An enable entry is a record [name, tuple, val]: a    *)
(* bare string "N" is [name |-> "N", tuple |-> FALSE, val |-> 0] and the   *)
(* pair ["N", v] is [name |-> "N", tuple |-> TRUE, val |-> v].  An include *)
(* or extends value is a record [set, isArray, names]: unset, one name, or *)
(* an array of names.  Parameter values are small integers, option and     *)
(* document names are strings: JSON.parse(JSON.stringify(x)) returns an    *)
(* equal, unshared copy of such values, which is what a TLA+ value is.     *)
(***************************************************************************)
EXTENDS Integers, Sequences, FiniteSets, TLC

Undef == "undef"

(***************************************************************************)
(* Bounds of the explored inputs.                                          *)
(***************************************************************************)
MaxVal == 2          \* parameter values of enable pairs are 1..MaxVal
MaxParents == 2      \* longest extends array of the reference inputs
NumAssets == 3       \* distinct artifact names per channel in the inputs

Values == 1..MaxVal

(***************************************************************************)
(* Sequence helpers for the JavaScript array methods the code uses.        *)
(***************************************************************************)
Range(s) == {s[i] : i \in DOMAIN s}

\* Array.prototype.splice(idx, 1) with a 0-based idx >= 0: removes the
\* element at idx when there is one, and nothing otherwise.
Splice(arr, idx) ==
    IF idx < Len(arr)
    THEN SubSeq(arr, 1, idx) \o SubSeq(arr, idx + 2, Len(arr))
    ELSE arr

\* for (const toRemove of idxs) arr.splice(toRemove, 1)
RECURSIVE SpliceEach(_, _)
SpliceEach(arr, idxs) ==
    IF idxs = <<>> THEN arr
    ELSE SpliceEach(Splice(arr, Head(idxs)), Tail(idxs))

\* the 0-based indexes, ascending, of the elements of names that are in others
RECURSIVE IndexesIn(_, _, _)
IndexesIn(names, others, i) ==
    IF i >= Len(names) THEN <<>>
    ELSE (IF names[i + 1] \in others THEN <<i>> ELSE <<>>)
         \o IndexesIn(names, others, i + 1)

\* indexing a string or a pair with [0]: the first character of a bare name,
\* the name of a pair.
FirstChar(n) ==
    CASE n = "FEATURE_A" -> "F"
      [] n = "FEATURE_B" -> "F"
      [] n = "OPT_X" -> "O"
      [] OTHER -> n

Bare(n) == [name |-> n, tuple |-> FALSE, val |-> 0]
Pair(n, v) == [name |-> n, tuple |-> TRUE, val |-> v]

\* typeof e === "string" ? e : e[0]
EntryName(e) == e.name
EnableNames(arr) == [i \in DOMAIN arr |-> EntryName(arr[i])]

\* e[0] for an entry of either form
EntryAt0(e) == IF e.tuple THEN e.name ELSE FirstChar(e.name)

ConfigTypes == <<"configuration", "configuration_adv">>

(***************************************************************************)
(* fixConfigurationConflicts (prepare.ts 285-331): the new value of        *)
(* build1; build2 is not written.  selfCheck is build1 === build2.         *)
(***************************************************************************)
fixConfigurationConflicts(build1, build2, selfCheck, configType) ==
    LET build1Enables  == EnableNames(build1[configType].enable)
        build1Disables == build1[configType].disable
        build2Enables  == EnableNames(build2[configType].enable)
        build2Disables == build2[configType].disable
        removeEnables  == IndexesIn(build1Enables, Range(build2Disables), 0)
        removeDisables == IF selfCheck THEN <<>>
                          ELSE IndexesIn(build1Disables, Range(build2Enables), 0)
    IN [build1 EXCEPT
          ![configType] =
             [enable  |-> SpliceEach(build1[configType].enable, removeEnables),
              disable |-> SpliceEach(build1[configType].disable, removeDisables)]]

(***************************************************************************)
(* mergeCoreProperties (prepare.ts 333-347).  a || b on values that are    *)
(* undefined or non-empty strings.                                         *)
(***************************************************************************)
OrElse(a, b) == IF a # Undef THEN a ELSE b

\* mutant: active and only fall back to the parent's like board_env does
mergeCoreProperties_InheritFlags(base, extension) ==
    [base EXCEPT
       !.meta = extension.meta,
       !.active = OrElse(extension.active, base.active),
       !.only = OrElse(extension.only, base.only),
       !.board_env = OrElse(extension.board_env, base.board_env),
       !.based_on =
          [repo |-> OrElse(extension.based_on.repo, base.based_on.repo),
           path |-> OrElse(extension.based_on.path, base.based_on.path),
           stable_branch |-> OrElse(extension.based_on.stable_branch,
                                    base.based_on.stable_branch),
           nightly_branch |-> OrElse(extension.based_on.nightly_branch,
                                     base.based_on.nightly_branch)]]

\* mutant: the operands of || swapped, the parent's value wins
mergeCoreProperties_BaseFirst(base, extension) ==
    [base EXCEPT
       !.meta = extension.meta,
       !.active = extension.active,
       !.only = extension.only,
       !.board_env = OrElse(base.board_env, extension.board_env),
       !.based_on =
          [repo |-> OrElse(base.based_on.repo, extension.based_on.repo),
           path |-> OrElse(base.based_on.path, extension.based_on.path),
           stable_branch |-> OrElse(base.based_on.stable_branch,
                                    extension.based_on.stable_branch),
           nightly_branch |-> OrElse(base.based_on.nightly_branch,
                                     extension.based_on.nightly_branch)]]

\* mutant: min_version falls back like board_env does
mergeCoreProperties_MinVersion(base, extension) ==
    [base EXCEPT
       !.meta = extension.meta,
       !.active = extension.active,
       !.only = extension.only,
       !.min_version = OrElse(extension.min_version, base.min_version),
       !.board_env = OrElse(extension.board_env, base.board_env),
       !.based_on =
          [repo |-> OrElse(extension.based_on.repo, base.based_on.repo),
           path |-> OrElse(extension.based_on.path, base.based_on.path),
           stable_branch |-> OrElse(extension.based_on.stable_branch,
                                    base.based_on.stable_branch),
           nightly_branch |-> OrElse(extension.based_on.nightly_branch,
                                     base.based_on.nightly_branch)]]

mergeCoreProperties(base, extension) ==
    [base EXCEPT
       !.meta = extension.meta,
       !.active = extension.active,
       !.only = extension.only,
       !.board_env = OrElse(extension.board_env, base.board_env),
       !.based_on =
          [repo |-> OrElse(extension.based_on.repo, base.based_on.repo),
           path |-> OrElse(extension.based_on.path, base.based_on.path),
           stable_branch |-> OrElse(extension.based_on.stable_branch,
                                    base.based_on.stable_branch),
           nightly_branch |-> OrElse(extension.based_on.nightly_branch,
                                     base.based_on.nightly_branch)]]

(***************************************************************************)
(* mergeExtensionConfiguration (prepare.ts 351-376) and                    *)
(* mergePartialConfiguration (prepare.ts 378-400).                         *)
(***************************************************************************)
\* the index of the first element find(e => e[0] === name) returns, 0 if none
FindAt0(arr, n) ==
    LET hits == {i \in DOMAIN arr : EntryAt0(arr[i]) = n}
    IN IF hits = {} THEN 0 ELSE CHOOSE i \in hits : \A k \in hits : i <= k

\* one iteration of the loop over extension[configType].enable
ExtensionEnableStep(baseEnable, enable) ==
    IF ~enable.tuple
    THEN IF enable \in Range(baseEnable) THEN baseEnable
         ELSE Append(baseEnable, enable)
    ELSE IF enable.name \notin Range(EnableNames(baseEnable))
         THEN Append(baseEnable, enable)
         ELSE LET at == FindAt0(baseEnable, enable.name)
              IN IF at # 0 /\ baseEnable[at].tuple
                 THEN [baseEnable EXCEPT ![at].val = enable.val]
                 ELSE baseEnable

PartialEnableStep(baseEnable, enable) ==
    IF ~enable.tuple
    THEN IF enable \in Range(baseEnable) THEN baseEnable
         ELSE Append(baseEnable, enable)
    ELSE IF enable.name \notin Range(EnableNames(baseEnable))
         THEN Append(baseEnable, enable)
         ELSE baseEnable

DisableStep(baseDisable, disable) ==
    IF disable \in Range(baseDisable) THEN baseDisable
    ELSE Append(baseDisable, disable)

RECURSIVE FoldExtensionEnable(_, _)
FoldExtensionEnable(baseEnable, enables) ==
    IF enables = <<>> THEN baseEnable
    ELSE FoldExtensionEnable(ExtensionEnableStep(baseEnable, Head(enables)),
                             Tail(enables))

RECURSIVE FoldPartialEnable(_, _)
FoldPartialEnable(baseEnable, enables) ==
    IF enables = <<>> THEN baseEnable
    ELSE FoldPartialEnable(PartialEnableStep(baseEnable, Head(enables)),
                           Tail(enables))

RECURSIVE FoldDisable(_, _)
FoldDisable(baseDisable, disables) ==
    IF disables = <<>> THEN baseDisable
    ELSE FoldDisable(DisableStep(baseDisable, Head(disables)), Tail(disables))

mergeExtensionConfiguration(base, extension, configType) ==
    [base EXCEPT
       ![configType] =
          [enable  |-> FoldExtensionEnable(base[configType].enable,
                                           extension[configType].enable),
           disable |-> FoldDisable(base[configType].disable,
                                   extension[configType].disable)]]

mergePartialConfiguration(base, extension, configType) ==
    [base EXCEPT
       ![configType] =
          [enable  |-> FoldPartialEnable(base[configType].enable,
                                         extension[configType].enable),
           disable |-> FoldDisable(base[configType].disable,
                                   extension[configType].disable)]]


(***************************************************************************)
(* Documents and the three schemas (prepare.ts 6-56).                      *)
(***************************************************************************)
NoRef == [set |-> FALSE, isArray |-> FALSE, names |-> <<>>]
One(n) == [set |-> TRUE, isArray |-> FALSE, names |-> <<n>>]
Many(ns) == [set |-> TRUE, isArray |-> TRUE, names |-> ns]

NoConfig == [enable |-> <<>>, disable |-> <<>>]
NoMeta == [stable_name |-> Undef, nightly_name |-> Undef]
NoBasedOn == [repo |-> Undef, path |-> Undef, stable_branch |-> Undef,
              nightly_branch |-> Undef]

\* the first top-level key buildSchema.parse reports, Undef when it accepts
buildSchemaIssue(build) ==
    IF build.board_env = Undef THEN "board_env"
    ELSE IF build.meta.stable_name = Undef \/ build.meta.nightly_name = Undef
    THEN "meta"
    ELSE IF \E f \in DOMAIN build.based_on : build.based_on[f] = Undef
    THEN "based_on"
    ELSE Undef

\* extendedBuildSchema: everything optional but extends and meta
extendedBuildSchemaIssue(build) ==
    IF build.meta.stable_name = Undef \/ build.meta.nightly_name = Undef
    THEN "meta"
    ELSE Undef

\* partialBuildSchema: partial must be the literal true
partialBuildSchemaIssue(build) ==
    IF build.partial # "true" THEN "partial" ELSE Undef

\* what partialBuildSchema.parse returns: the picked keys only
partialBuildSchemaParse(build) ==
    [build EXCEPT !.extends = NoRef, !.board_env = Undef, !.active = Undef,
                  !.only = Undef, !.min_version = Undef, !.meta = NoMeta,
                  !.based_on = NoBasedOn]

(***************************************************************************)
(* preparseBuilds (prepare.ts 212-233): classification of one raw build.   *)
(***************************************************************************)
\* mutant: a build is a partial only when partial is true
Classify_ByValue(build) ==
    IF build.partial = "true" THEN "partial"
    ELSE IF build.extends.set THEN "extended"
    ELSE "full"

\* "partial" in build, then "extends" in build
Classify(build) ==
    IF build.partial # Undef THEN "partial"
    ELSE IF build.extends.set THEN "extended"
    ELSE "full"

PreparseIssue(build) ==
    CASE Classify(build) = "partial" -> partialBuildSchemaIssue(build)
      [] Classify(build) = "extended" -> extendedBuildSchemaIssue(build)
      [] OTHER -> buildSchemaIssue(build)

PreparseOne(name, build) ==
    [kind |-> Classify(build),
     build |-> IF Classify(build) = "partial"
               THEN partialBuildSchemaParse(build) ELSE build,
     name |-> name]

(***************************************************************************)
(* State of one run of loadBuilds (prepare.ts 63-171).                     *)
(***************************************************************************)
VARIABLES
    builds,      \* the build paths, in getBuildPaths order
    preLoaded,   \* path -> raw build
    preParsed,   \* path -> [kind, build, name], the registry being resolved
    keys,        \* Object.keys(preParsed), in insertion order
    partials,    \* the included partials, to delete
    snapshot,    \* Object.entries(preParsed) taken at line 117
    stack,       \* the active calls of mergeExtension, innermost last
    loaded,      \* the registry returned
    pc,          \* the loop of loadBuilds being executed
    i,           \* position of that loop in keys (1-based)
    j,           \* position in the include array of keys[i] (1-based)
    err,         \* the error thrown, NoErr while none
    mergeLog     \* history: the documents whose call of mergeExtension has
                 \* run to its end, in that order

vars == <<builds, preLoaded, preParsed, keys, partials, snapshot, stack,
          loaded, pc, i, j, err, mergeLog>>

NoErr == [kind |-> "none", build |-> Undef, what |-> Undef]
Err(k, b, w) == [kind |-> k, build |-> b, what |-> w]

Throw(e) ==
    /\ pc' = "failed"
    /\ err' = e
    /\ UNCHANGED <<mergeLog, builds, preLoaded, preParsed, keys, partials, snapshot,
                   stack, loaded, i, j>>

\* lines 78-79
Preparse ==
    /\ pc = "preparse"
    /\ LET bad == {k \in DOMAIN builds : PreparseIssue(preLoaded[builds[k]]) # Undef}
       IN IF bad # {}
          THEN LET k == CHOOSE x \in bad : \A y \in bad : x <= y
               IN Throw(Err("schema", builds[k], PreparseIssue(preLoaded[builds[k]])))
          ELSE /\ preParsed' = [n \in Range(builds) |-> PreparseOne(n, preLoaded[n])]
               /\ keys' = builds
               /\ pc' = "include"
               /\ i' = 1
               /\ j' = 1
               /\ UNCHANGED <<mergeLog, builds, preLoaded, partials, snapshot, stack,
                              loaded, err>>

(***************************************************************************)
(* Partial inclusion (prepare.ts 81-114).                                  *)
(***************************************************************************)
\* the body of lines 94-97 / 108-111 on the pair (partial, includer); the
\* includer is the partial itself when a partial includes itself.
selfCheckBoth(build) ==
    LET b1 == fixConfigurationConflicts(build, build, TRUE, "configuration")
    IN fixConfigurationConflicts(b1, b1, TRUE, "configuration_adv")

IncludedPartial(partialBuild, build, same) ==
    IF same THEN selfCheckBoth(partialBuild)
    ELSE LET p1 == fixConfigurationConflicts(partialBuild, build, FALSE,
                                             "configuration")
             b1 == mergePartialConfiguration(build, p1, "configuration")
         IN fixConfigurationConflicts(p1, b1, FALSE, "configuration_adv")

IncludingBuild(partialBuild, build, same) ==
    IF same THEN selfCheckBoth(partialBuild)
    ELSE LET p1 == fixConfigurationConflicts(partialBuild, build, FALSE,
                                             "configuration")
             b1 == mergePartialConfiguration(build, p1, "configuration")
             p2 == fixConfigurationConflicts(p1, b1, FALSE, "configuration_adv")
         IN mergePartialConfiguration(b1, p2, "configuration_adv")

\* line 84, and the end of the loop over an include array
IncludeNext ==
    /\ pc = "include"
    /\ i <= Len(keys)
    /\ LET inc == preParsed[keys[i]].build.include
       IN IF inc.set THEN j > Len(inc.names) ELSE TRUE
    /\ i' = i + 1
    /\ j' = 1
    /\ UNCHANGED <<mergeLog, builds, preLoaded, preParsed, keys, partials, snapshot,
                   stack, loaded, pc, err>>

\* lines 87-98 (one element of an include array) and 101-112 (one name)
IncludeOne ==
    /\ pc = "include"
    /\ i <= Len(keys)
    /\ LET buildName == keys[i]
           builder == preParsed[buildName]
           inc == builder.build.include
       IN /\ inc.set
          /\ j <= Len(inc.names)
          /\ LET partialBuildName == inc.names[j]
             IN IF partialBuildName \notin Range(builds)
                THEN Throw(Err("no_partial", buildName, partialBuildName))
                ELSE IF preParsed[partialBuildName].kind # "partial"
                THEN Throw(Err("not_partial", buildName, partialBuildName))
                ELSE LET pb == preParsed[partialBuildName].build
                         same == partialBuildName = buildName
                     IN /\ preParsed' =
                             [preParsed EXCEPT
                                ![partialBuildName].build =
                                    IncludedPartial(pb, builder.build, same),
                                ![buildName].build =
                                    IncludingBuild(pb, builder.build, same)]
                        /\ partials' =
                             IF partialBuildName \in Range(partials)
                             THEN partials
                             ELSE Append(partials, partialBuildName)
                        /\ j' = j + 1
                        /\ UNCHANGED <<mergeLog, builds, preLoaded, keys, snapshot, stack,
                                       loaded, pc, i, err>>

\* line 117: the entries the extension loop iterates are those of this moment
IncludeDone ==
    /\ pc = "include"
    /\ i > Len(keys)
    /\ snapshot' = preParsed
    /\ pc' = "extend"
    /\ i' = 1
    /\ UNCHANGED <<mergeLog, builds, preLoaded, preParsed, keys, partials, stack,
                   loaded, j, err>>


(***************************************************************************)
(* Extension resolution (prepare.ts 116-137 and mergeExtension 235-283).   *)
(* A call of mergeExtension is a frame: the document being resolved, the   *)
(* build passed in, the number k of parents folded so far, the accumulator *)
(* (initial / base) once there is one, and whether the recursive call for  *)
(* parent k has just returned.  A single extends is a chain of one parent. *)
(***************************************************************************)
NoEntry == [kind |-> "none", build |-> Undef, name |-> Undef]

Frame(buildName, build) ==
    [buildName |-> buildName, build |-> build, k |-> 0, initial |-> NoEntry,
     returned |-> FALSE]

\* lines 251-255, 259-263 and 275-279: the five calls that merge extension
\* into base (the two are never the same object)
MergeInto(base, extension) ==
    LET b1 == mergeCoreProperties(base, extension)
        b2 == fixConfigurationConflicts(b1, extension, FALSE, "configuration")
        b3 == mergeExtensionConfiguration(b2, extension, "configuration")
        b4 == fixConfigurationConflicts(b3, extension, FALSE, "configuration_adv")
    IN mergeExtensionConfiguration(b4, extension, "configuration_adv")

\* lines 247-255 (array) and 268/273 (single): parent current joins the
\* accumulator
FoldParent(initial, current) ==
    IF initial.kind = "none" THEN current
    ELSE [initial EXCEPT !.build = MergeInto(initial.build, current.build)]

\* the first reference of an extends the checks of lines 119-135 reject
RECURSIVE ExtendsIssue(_, _)
ExtendsIssue(buildName, names) ==
    IF names = <<>> THEN NoErr
    ELSE IF Head(names) \notin Range(builds)
    THEN Err("no_parent", buildName, Head(names))
    ELSE IF preParsed[Head(names)].kind = "partial"
    THEN Err("parent_is_partial", buildName, Head(names))
    ELSE ExtendsIssue(buildName, Tail(names))

\* line 118
ExtendNext ==
    /\ pc = "extend"
    /\ i <= Len(keys)
    /\ snapshot[keys[i]].kind # "extended"
    /\ i' = i + 1
    /\ UNCHANGED <<mergeLog, builds, preLoaded, preParsed, keys, partials, snapshot,
                   stack, loaded, pc, j, err>>

\* lines 119-136: the checks, then the call of mergeExtension
ExtendCall ==
    /\ pc = "extend"
    /\ i <= Len(keys)
    /\ snapshot[keys[i]].kind = "extended"
    /\ LET buildName == keys[i]
           build == snapshot[buildName].build
           issue == ExtendsIssue(buildName, build.extends.names)
       IN IF issue # NoErr
          THEN Throw(issue)
          ELSE /\ stack' = <<Frame(buildName, build)>>
               /\ pc' = "merge"
               /\ UNCHANGED <<mergeLog, builds, preLoaded, preParsed, keys, partials,
                              snapshot, loaded, i, j, err>>

Top == stack[Len(stack)]
TopParent == Top.build.extends.names[Top.k + 1]
ReplaceTop(f) == [stack EXCEPT ![Len(stack)] = f]

\* lines 240 / 268 on a name the registry does not hold:
\* JSON.parse(JSON.stringify(undefined)) throws a SyntaxError
MergeMissing ==
    /\ pc = "merge"
    /\ Top.k < Len(Top.build.extends.names)
    /\ TopParent \notin DOMAIN preParsed
    /\ Throw(Err("syntax_error", Undef, Undef))

\* mutant: a parent whose own call is still active is reported as a bad
\* reference instead of being entered again
MergeRecurse_CycleGuard ==
    /\ pc = "merge"
    /\ Top.k < Len(Top.build.extends.names)
    /\ ~Top.returned
    /\ TopParent \in DOMAIN preParsed
    /\ preParsed[TopParent].kind = "extended"
    /\ IF TopParent \in {stack[k].buildName : k \in DOMAIN stack}
       THEN Throw(Err("no_parent", Top.buildName, TopParent))
       ELSE /\ stack' = Append(ReplaceTop([Top EXCEPT !.returned = TRUE]),
                               Frame(TopParent, preParsed[TopParent].build))
            /\ UNCHANGED <<mergeLog, builds, preLoaded, preParsed, keys,
                           partials, snapshot, loaded, pc, i, j, err>>

\* lines 242-243 / 270-271: the parent is extended, go deeper.  A chain
\* longer than the number of documents repeats a document that is still
\* unresolved, so the recursion never ends: the call stack overflows.
MergeRecurse ==
    /\ pc = "merge"
    /\ Top.k < Len(Top.build.extends.names)
    /\ ~Top.returned
    /\ TopParent \in DOMAIN preParsed
    /\ preParsed[TopParent].kind = "extended"
    /\ IF Len(stack) > Len(builds)
       THEN Throw(Err("range_error", Undef, Undef))
       ELSE /\ stack' = Append(ReplaceTop([Top EXCEPT !.returned = TRUE]),
                               Frame(TopParent, preParsed[TopParent].build))
            /\ UNCHANGED <<mergeLog, builds, preLoaded, preParsed, keys, partials,
                           snapshot, loaded, pc, i, j, err>>

\* lines 240-255 / 268-274 for a parent that needs no (more) resolving: a
\* copy of its registry entry is folded into the accumulator
MergeParent ==
    /\ pc = "merge"
    /\ Top.k < Len(Top.build.extends.names)
    /\ TopParent \in DOMAIN preParsed
    /\ IF Top.returned THEN TRUE ELSE preParsed[TopParent].kind # "extended"
    /\ stack' = ReplaceTop([Top EXCEPT
                              !.initial = FoldParent(Top.initial,
                                                     preParsed[TopParent]),
                              !.k = Top.k + 1,
                              !.returned = FALSE])
    /\ UNCHANGED <<mergeLog, builds, preLoaded, preParsed, keys, partials, snapshot,
                   loaded, pc, i, j, err>>

\* mutant: the accumulator is the first parent's registry entry itself, not
\* a copy of it, so the merge is written to the parent too
MergeStore_NoCopy ==
    /\ pc = "merge"
    /\ Top.k = Len(Top.build.extends.names)
    /\ preParsed' =
         IF Top.initial.kind = "none" THEN preParsed
         ELSE LET merged == [Top.initial EXCEPT
                               !.build = MergeInto(Top.initial.build, Top.build),
                               !.name = Top.buildName]
              IN [preParsed EXCEPT ![Top.build.extends.names[1]] = merged,
                                   ![Top.buildName] = merged]
    /\ stack' = SubSeq(stack, 1, Len(stack) - 1)
    /\ IF Len(stack) = 1
       THEN pc' = "extend" /\ i' = i + 1
       ELSE pc' = pc /\ i' = i
    /\ mergeLog' = Append(mergeLog, Top.buildName)
    /\ UNCHANGED <<builds, preLoaded, keys, partials, snapshot, loaded, j, err>>

\* lines 258-266 / 275-281: the extension itself is merged last and the
\* result stored under its name; then the call returns
MergeStore ==
    /\ pc = "merge"
    /\ Top.k = Len(Top.build.extends.names)
    /\ preParsed' =
         IF Top.initial.kind = "none" THEN preParsed
         ELSE [preParsed EXCEPT
                 ![Top.buildName] =
                     [Top.initial EXCEPT
                        !.build = MergeInto(Top.initial.build, Top.build),
                        !.name = Top.buildName]]
    /\ stack' = SubSeq(stack, 1, Len(stack) - 1)
    /\ IF Len(stack) = 1
       THEN pc' = "extend" /\ i' = i + 1
       ELSE pc' = pc /\ i' = i
    /\ mergeLog' = Append(mergeLog, Top.buildName)
    /\ UNCHANGED <<builds, preLoaded, keys, partials, snapshot, loaded, j, err>>

(***************************************************************************)
(* Lines 139-171: delete the partials, self-check and final parse, unique  *)
(* artifact names.                                                         *)
(***************************************************************************)
DeletePartials ==
    /\ pc = "extend"
    /\ i > Len(keys)
    /\ preParsed' = [n \in DOMAIN preParsed \ Range(partials) |-> preParsed[n]]
    /\ keys' = SelectSeq(keys, LAMBDA n : n \notin Range(partials))
    /\ pc' = "selfcheck"
    /\ i' = 1
    /\ UNCHANGED <<mergeLog, builds, preLoaded, partials, snapshot, stack, loaded, j, err>>

\* lines 145-158 for one entry
SelfCheck ==
    /\ pc = "selfcheck"
    /\ i <= Len(keys)
    /\ LET buildName == keys[i]
           fixed == selfCheckBoth(preParsed[buildName].build)
       IN /\ preParsed' = [preParsed EXCEPT ![buildName].build = fixed]
          /\ IF buildSchemaIssue(fixed) # Undef
             THEN /\ pc' = "failed"
                  /\ err' = Err("schema", buildName, buildSchemaIssue(fixed))
                  /\ UNCHANGED <<loaded, i>>
             ELSE /\ loaded' = (buildName :> fixed) @@ loaded
                  /\ i' = i + 1
                  /\ UNCHANGED <<pc, err>>
    /\ UNCHANGED <<mergeLog, builds, preLoaded, keys, partials, snapshot, stack, j>>

\* lines 161-168: the first artifact name used by more than one build
LoadedSeq == SelectSeq(keys, LAMBDA n : n \in DOMAIN loaded)
UsedStable(name) ==
    Cardinality({n \in DOMAIN loaded : loaded[n].meta.stable_name = name})
UsedNightly(name) ==
    Cardinality({n \in DOMAIN loaded : loaded[n].meta.nightly_name = name})

\* mutant: only the stable names are compared
RECURSIVE UniqueIssue_StableOnly(_)
UniqueIssue_StableOnly(names) ==
    IF names = <<>> THEN NoErr
    ELSE LET build == loaded[Head(names)]
         IN IF UsedStable(build.meta.stable_name) > 1
            THEN Err("not_unique", Undef, build.meta.stable_name)
            ELSE UniqueIssue_StableOnly(Tail(names))

RECURSIVE UniqueIssue(_)
UniqueIssue(names) ==
    IF names = <<>> THEN NoErr
    ELSE LET build == loaded[Head(names)]
         IN IF UsedStable(build.meta.stable_name) > 1
            THEN Err("not_unique", Undef, build.meta.stable_name)
            ELSE IF UsedNightly(build.meta.nightly_name) > 1
            THEN Err("not_unique", Undef, build.meta.nightly_name)
            ELSE UniqueIssue(Tail(names))

CheckUnique ==
    /\ pc = "selfcheck"
    /\ i > Len(keys)
    /\ IF UniqueIssue(LoadedSeq) # NoErr
       THEN Throw(UniqueIssue(LoadedSeq))
       ELSE /\ pc' = "done"
            /\ UNCHANGED <<mergeLog, builds, preLoaded, preParsed, keys, partials,
                           snapshot, stack, loaded, i, j, err>>

(***************************************************************************)
(* The inputs explored: the raw builds loadBuilds finds under ./builds.     *)
(* Every raw build carries all the keys of a build, unset ones as Undef.   *)
(***************************************************************************)
BuildPaths == <<"b1", "b2", "b3">>
Nowhere == "nowhere"         \* a path no build has

RawBuild(partial, extends, include, core, configuration, configuration_adv) ==
    [partial |-> partial, extends |-> extends, include |-> include,
     board_env |-> core.board_env, active |-> core.active, only |-> core.only,
     min_version |-> core.min_version, meta |-> core.meta,
     based_on |-> core.based_on,
     configuration |-> configuration, configuration_adv |-> configuration_adv]

Meta(k) == [stable_name |-> "stable" \o ToString(k),
            nightly_name |-> "nightly" \o ToString(k)]

\* a complete set of core properties, different for each k
Core(k) ==
    [board_env |-> "board" \o ToString(k), active |-> "true", only |-> "stable",
     min_version |-> "2.0." \o ToString(k), meta |-> Meta(k),
     based_on |-> [repo |-> "repo" \o ToString(k),
                   path |-> "path" \o ToString(k),
                   stable_branch |-> "sb" \o ToString(k),
                   nightly_branch |-> "nb" \o ToString(k)]]

\* the core properties of a build that sets only its artifact names
MetaOnly(k) ==
    [board_env |-> Undef, active |-> Undef, only |-> Undef,
     min_version |-> Undef, meta |-> Meta(k), based_on |-> NoBasedOn]

NoCore == [MetaOnly(1) EXCEPT !.meta = NoMeta]

Full(k, include, c, adv) == RawBuild(Undef, NoRef, include, Core(k), c, adv)
Partial(include, c, adv) == RawBuild("true", NoRef, include, NoCore, c, adv)
Extended(k, extends, c, adv) == RawBuild(Undef, extends, NoRef, MetaOnly(k), c, adv)

\* sequences without repetition over a set, of length at most n
RECURSIVE Arrangements(_, _)
Arrangements(S, n) ==
    IF n = 0 THEN {<<>>}
    ELSE LET shorter == Arrangements(S, n - 1)
         IN shorter \cup {Append(s, x) : s \in shorter, x \in S}

DistinctNames(enable) ==
    \A a, b \in DOMAIN enable : a # b => enable[a].name # enable[b].name
NoRepeat(s) == \A a, b \in DOMAIN s : a # b => s[a] # s[b]

\* enable arrays over the given entries and disable arrays over the given
\* names, each naming an option at most once
EnableArrays(entries, n) ==
    {e \in Arrangements(entries, n) : DistinctNames(e)}
DisableArrays(names, n) == {d \in Arrangements(names, n) : NoRepeat(d)}
Configs(enables, disables) ==
    {[enable |-> e, disable |-> d] : e \in enables, d \in disables}

PairsOf(n) == {Pair(n, v) : v \in Values}

\* two option names, OPT_X bare or with a value
TwoNameConfigs ==
    Configs(EnableArrays({Bare("FEATURE_A"), Bare("OPT_X")} \cup PairsOf("OPT_X"), 2),
            DisableArrays({"FEATURE_A", "OPT_X"}, 2))

\* one option name, for configuration_adv
OneNameConfigs ==
    Configs({<<>>, <<Bare("FEATURE_A")>>}, {<<>>, <<"FEATURE_A">>})

\* the state loadBuilds starts from when ./builds holds docs, in that order
Start(docs) ==
    /\ builds = SubSeq(BuildPaths, 1, Len(docs))
    /\ preLoaded = [n \in {BuildPaths[k] : k \in DOMAIN docs} |->
                      docs[CHOOSE k \in DOMAIN docs : BuildPaths[k] = n]]
    /\ preParsed = <<>>
    /\ keys = <<>>
    /\ partials = <<>>
    /\ snapshot = <<>>
    /\ stack = <<>>
    /\ loaded = <<>>
    /\ pc = "preparse"
    /\ i = 1
    /\ j = 1
    /\ err = NoErr
    /\ mergeLog = <<>>

\* a partial and a build that includes it
IncludeInputs ==
    \/ \E p \in TwoNameConfigs, d \in TwoNameConfigs :
          Start(<<Partial(NoRef, p, NoConfig), Full(2, One("b1"), d, NoConfig)>>)
    \/ \E inc \in {One("b2"), Many(<<"b2">>)},
          p \in OneNameConfigs, pa \in OneNameConfigs,
          d \in OneNameConfigs, da \in OneNameConfigs :
          Start(<<Full(1, inc, d, da), Partial(NoRef, p, pa)>>)

\* a build and a build that extends it
ExtendInputs ==
    \/ \E b \in TwoNameConfigs, d \in TwoNameConfigs :
          Start(<<Full(1, NoRef, b, NoConfig),
                  Extended(2, One("b1"), d, NoConfig)>>)
    \/ \E ext \in {One("b2"), Many(<<"b2">>)},
          b \in OneNameConfigs, ba \in OneNameConfigs,
          d \in OneNameConfigs, da \in OneNameConfigs :
          Start(<<Extended(1, ext, d, da), Full(2, NoRef, b, ba)>>)

\* a build that extends two parents, in three option names
ChainInputs ==
    \E e1 \in EnableArrays({Bare("FEATURE_A"), Bare("FEATURE_B")}
                            \cup PairsOf("OPT_X"), 3),
       p2 \in Configs({<<>>, <<Bare("OPT_X")>>, <<Bare("FEATURE_A")>>}
                         \cup {<<x>> : x \in PairsOf("OPT_X")},
                      {<<>>, <<"FEATURE_A">>, <<"OPT_X">>}),
       d \in Configs({<<>>} \cup {<<x>> : x \in PairsOf("OPT_X")},
                     DisableArrays({"FEATURE_A", "FEATURE_B"}, 2)
                         \cup {<<"OPT_X">>}) :
       Start(<<Full(1, NoRef, [enable |-> e1, disable |-> <<>>], NoConfig),
               Full(2, NoRef, p2, NoConfig),
               Extended(3, Many(<<"b1", "b2">>), d, NoConfig)>>)

\* three builds of every kind that name each other (or a missing build) in
\* include and extends, in every order; build 1 enables FEATURE_A and OPT_X,
\* build 2 disables FEATURE_A, builds 2 and 3 give OPT_X another value
RefConfig(k) ==
    [enable |-> IF k = 1 THEN <<Bare("FEATURE_A"), Pair("OPT_X", 1)>>
                ELSE <<Pair("OPT_X", MaxVal)>>,
     disable |-> IF k = 2 THEN <<"FEATURE_A">> ELSE <<>>]

IncludeRefs ==
    {NoRef, Many(<<>>)} \cup {One(n) : n \in Range(BuildPaths) \cup {Nowhere}}
ExtendsRefs ==
    {One(n) : n \in Range(BuildPaths) \cup {Nowhere}}
    \cup {Many(ns) : ns \in DisableArrays(Range(BuildPaths), MaxParents)}

RefBuilds(k) ==
    {Full(k, inc, RefConfig(k), NoConfig) : inc \in IncludeRefs}
    \cup {Partial(inc, RefConfig(k), NoConfig) :
             inc \in {NoRef} \cup {One(n) : n \in Range(BuildPaths)}}
    \cup {Extended(k, ext, RefConfig(k), NoConfig) : ext \in ExtendsRefs}

RefInputs ==
    \E x \in RefBuilds(1), y \in RefBuilds(2), z \in RefBuilds(3) :
       Start(<<x, y, z>>)

\* the core properties an extending build may set or leave unset
ExtCores(k) ==
    {[board_env |-> be, active |-> ac, only |-> on, min_version |-> mv,
      meta |-> Meta(k),
      based_on |-> [repo |-> re, path |-> pa, stable_branch |-> sb,
                    nightly_branch |-> nb]] :
        be \in {Undef, "board" \o ToString(k)},
        ac \in {Undef, "false"}, on \in {Undef, "nightly"},
        mv \in {Undef, "2.0." \o ToString(k)},
        re \in {Undef, "repo" \o ToString(k)},
        pa \in {Undef, "path" \o ToString(k)},
        sb \in {Undef, "sb" \o ToString(k)},
        nb \in {Undef, "nb" \o ToString(k)}}

\* parents with and without the optional properties and a build extending
\* one or both of them; and a build that extends a build that extends
CoreInputs ==
    \/ \E p1 \in {Core(1), [Core(1) EXCEPT !.active = Undef, !.only = Undef,
                                           !.min_version = Undef]},
          e3 \in {One("b1"), Many(<<"b1", "b2">>), Many(<<"b2", "b1">>)},
          c3 \in ExtCores(3) :
          Start(<<RawBuild(Undef, NoRef, NoRef, p1, NoConfig, NoConfig),
                  Full(2, NoRef, NoConfig, NoConfig),
                  RawBuild(Undef, e3, NoRef, c3, NoConfig, NoConfig)>>)
    \/ \E c1 \in {c \in ExtCores(1) : c.min_version = Undef /\ c.only = Undef},
          c2 \in {c \in ExtCores(2) : c.based_on.path = Undef
                                       /\ c.based_on.stable_branch = Undef
                                       /\ c.based_on.nightly_branch = Undef} :
          Start(<<RawBuild(Undef, One("b2"), NoRef, c1, NoConfig, NoConfig),
                  RawBuild(Undef, One("b3"), NoRef, c2, NoConfig, NoConfig),
                  Full(3, NoRef, NoConfig, NoConfig)>>)

\* builds whose artifact names may collide
AssetInputs ==
    \E s2 \in 1..NumAssets, n2 \in 1..NumAssets,
       s3 \in 1..NumAssets, n3 \in 1..NumAssets,
       b3 \in {Full(3, NoRef, NoConfig, NoConfig),
               Extended(3, One("b1"), NoConfig, NoConfig),
               Extended(3, Many(<<"b2", "b1">>), NoConfig, NoConfig)} :
       Start(<<Full(1, NoRef, NoConfig, NoConfig),
               [Full(2, NoRef, NoConfig, NoConfig) EXCEPT
                   !.meta = [stable_name |-> Meta(s2).stable_name,
                             nightly_name |-> Meta(n2).nightly_name]],
               [b3 EXCEPT !.meta = [stable_name |-> Meta(s3).stable_name,
                                    nightly_name |-> Meta(n3).nightly_name]]>>)

\* raw builds that may fail their schema
RawInputs ==
    \E p \in {Undef, "true", "false"},
       e \in {NoRef, One("b2"), Many(<<>>)},
       c \in {Core(1), MetaOnly(1), NoCore, [Core(1) EXCEPT !.meta = NoMeta],
              [Core(1) EXCEPT !.board_env = Undef],
              [Core(1) EXCEPT !.based_on.path = Undef]} :
       Start(<<RawBuild(p, e, NoRef, c, NoConfig, NoConfig),
               Full(2, NoRef, NoConfig, NoConfig)>>)

\* builds that extend each other in chains and cycles, a missing build
\* listed first among the parents of some
CycleRefs ==
    {One(n) : n \in Range(BuildPaths)}
    \cup {Many(<<Nowhere, n>>) : n \in Range(BuildPaths)}
    \cup {Many(ns) : ns \in {xs \in Range(BuildPaths) \X Range(BuildPaths) :
                                 xs[1] # xs[2]}}

CycleInputs ==
    \E e1 \in CycleRefs, e2 \in CycleRefs,
       b3 \in {Full(3, NoRef, RefConfig(3), NoConfig)}
               \cup {Extended(3, One(n), RefConfig(3), NoConfig) :
                        n \in Range(BuildPaths)} :
       Start(<<Extended(1, e1, RefConfig(1), NoConfig),
               Extended(2, e2, RefConfig(2), NoConfig), b3>>)

\* a build that includes a partial that includes a partial, the three in
\* every order: doc[r] is the build at the place of role r
Permutations3 ==
    {f \in [1..3 -> 1..3] : \A a, b \in 1..3 : a # b => f[a] # f[b]}

NestedConfigs ==
    Configs(EnableArrays({Bare("FEATURE_B"), Pair("OPT_X", 1)}, 2),
            {<<>>, <<"FEATURE_A">>})

NestedInputs ==
    \E f \in Permutations3,
       p2 \in NestedConfigs,
       p1 \in Configs({<<>>, <<Bare("OPT_X")>>}, {<<>>, <<"FEATURE_B">>}),
       d \in Configs({<<>>, <<Bare("FEATURE_A")>>}, {<<>>, <<"OPT_X">>}) :
       LET doc == <<Full(f[1], One(BuildPaths[f[2]]), d, NoConfig),
                    Partial(One(BuildPaths[f[3]]), p1, NoConfig),
                    Partial(NoRef, p2, NoConfig)>>
       IN Start([k \in 1..3 |-> doc[CHOOSE r \in 1..3 : f[r] = k]])

Init ==
    \/ IncludeInputs
    \/ ExtendInputs
    \/ ChainInputs
    \/ RefInputs
    \/ CoreInputs
    \/ AssetInputs
    \/ RawInputs
    \/ NestedInputs

Next ==
    \/ Preparse
    \/ IncludeNext
    \/ IncludeOne
    \/ IncludeDone
    \/ ExtendNext
    \/ ExtendCall
    \/ MergeMissing
    \/ MergeRecurse
    \/ MergeParent
    \/ MergeStore
    \/ DeletePartials
    \/ SelfCheck
    \/ CheckUnique


Spec == Init /\ [][Next]_vars

\* loadBuilds is one sequential computation: it takes its next step as long
\* as it has one.  The inputs are the chains and cycles, and a build that
\* includes a partial.
TerminationInit ==
    \/ CycleInputs
    \/ \E inc \in {One("b2"), Many(<<"b2">>)} :
          Start(<<Full(1, inc, RefConfig(1), NoConfig),
                  Partial(NoRef, RefConfig(2), NoConfig),
                  Extended(3, One("b1"), RefConfig(3), NoConfig)>>)

TerminationSpec == TerminationInit /\ [][Next]_vars /\ WF_vars(Next)


(***************************************************************************)
(* Vocabulary of the properties.                                           *)
(***************************************************************************)
OptionNames == {"FEATURE_A", "FEATURE_B", "OPT_X"}
Types == Range(ConfigTypes)

\* the build as its author wrote it, and the kind it is classified as
Own(n) == preLoaded[n]
OwnKind(n) == Classify(preLoaded[n])

Enables(config, x) == x \in Range(EnableNames(config.enable))
Disables(config, x) == x \in Range(config.disable)
Lists(config, x) == Enables(config, x) \/ Disables(config, x)
ListsOnce(config, x) == Enables(config, x) # Disables(config, x)
EntriesOf(config, x) == SelectSeq(config.enable, LAMBDA e : e.name = x)

\* the same status and the same parameter value for option x
SameSetting(a, b, x) ==
    /\ EntriesOf(a, x) = EntriesOf(b, x)
    /\ Disables(a, x) = Disables(b, x)

Returned == pc = "done"
Parents(n) == Own(n).extends.names

\* every input build names each option at most once per array
InputsListOnce ==
    \A n \in DOMAIN preLoaded : \A t \in Types :
        DistinctNames(preLoaded[n][t].enable) /\ NoRepeat(preLoaded[n][t].disable)

(***************************************************************************)
(* C1: after the self-check no document handed to the registry has a name  *)
(* in both enable and disable, in configuration or configuration_adv.      *)
(* The code leaves such names behind when one set has two or more.         *)
(***************************************************************************)
C1_NoNameEnabledAndDisabled ==
    \A n \in DOMAIN loaded : \A t \in Types : \A x \in OptionNames :
        ~(Enables(loaded[n][t], x) /\ Disables(loaded[n][t], x))

(***************************************************************************)
(* C2: a build that includes a partial keeps, for every option it lists    *)
(* itself (in one of enable and disable), its own setting in the returned  *)
(* registry.                                                               *)
(***************************************************************************)
C2_PartialNonClobber ==
    Returned =>
      \A d \in DOMAIN loaded :
        (OwnKind(d) = "full" /\ Own(d).include.set /\ Own(d).include.names # <<>>) =>
          \A t \in Types : \A x \in OptionNames :
            ListsOnce(Own(d)[t], x) => SameSetting(Own(d)[t], loaded[d][t], x)

(***************************************************************************)
(* C3: a build that extends a parent has, for every option it lists itself *)
(* (in one of enable and disable), the status it declared and, when it     *)
(* gave a parameter value, that value and no other.                        *)
(***************************************************************************)
DeclaredSettingKept(own, result, x) ==
    /\ Disables(result, x) = Disables(own, x)
    /\ Enables(result, x) = Enables(own, x)
    /\ \A k \in DOMAIN own.enable :
          (own.enable[k].name = x /\ own.enable[k].tuple) =>
             \A m \in DOMAIN result.enable :
                result.enable[m].name = x => result.enable[m] = own.enable[k]

C3_ExtensionOverride ==
    Returned =>
      \A d \in DOMAIN loaded :
        (OwnKind(d) = "extended" /\ Parents(d) # <<>>) =>
          \A t \in Types : \A x \in OptionNames :
            ListsOnce(Own(d)[t], x) => DeclaredSettingKept(Own(d)[t], loaded[d][t], x)

(***************************************************************************)
(* C4: a build extending [P1, P2], two full builds that enable x with      *)
(* different values and do not disable it, and itself silent on x, has x   *)
(* enabled with the value P2 gave.                                         *)
(***************************************************************************)
C4_LaterParentWins ==
    Returned =>
      \A d \in DOMAIN loaded :
        (OwnKind(d) = "extended" /\ Own(d).extends.isArray /\ Len(Parents(d)) = 2) =>
          LET p1 == Parents(d)[1]
              p2 == Parents(d)[2]
          IN (OwnKind(p1) = "full" /\ OwnKind(p2) = "full") =>
             \A t \in Types : \A x \in OptionNames : \A v1, v2 \in Values :
               ( /\ v1 # v2
                 /\ Pair(x, v1) \in Range(Own(p1)[t].enable)
                 /\ Pair(x, v2) \in Range(Own(p2)[t].enable)
                 /\ ~Disables(Own(p1)[t], x) /\ ~Disables(Own(p2)[t], x)
                 /\ ~Lists(Own(d)[t], x) )
               => Pair(x, v2) \in Range(loaded[d][t].enable)


(***************************************************************************)
(* C5: a registry is returned only when no two entries share a stable name *)
(* and no two share a nightly name; the uniqueness error names a value     *)
(* that two of the surviving builds share.                                 *)
(***************************************************************************)
SharedStable(v) ==
    \E n, m \in DOMAIN loaded :
        n # m /\ loaded[n].meta.stable_name = v /\ loaded[m].meta.stable_name = v
SharedNightly(v) ==
    \E n, m \in DOMAIN loaded :
        n # m /\ loaded[n].meta.nightly_name = v /\ loaded[m].meta.nightly_name = v
AssetNames ==
    {loaded[n].meta.stable_name : n \in DOMAIN loaded}
    \cup {loaded[n].meta.nightly_name : n \in DOMAIN loaded}

C5_UniqueAssetNames ==
    /\ Returned => \A v \in AssetNames : ~SharedStable(v) /\ ~SharedNightly(v)
    /\ err.kind = "not_unique" => SharedStable(err.what) \/ SharedNightly(err.what)
    /\ (pc = "failed" /\ DOMAIN loaded = DOMAIN preParsed
          /\ \E v \in AssetNames : SharedStable(v) \/ SharedNightly(v))
       => err.kind = "not_unique"

\* two surviving builds share a nightly name and none a stable name, and
\* resolution fails naming it
C5_Witness ==
    /\ pc = "failed"
    /\ err.kind = "not_unique"
    /\ SharedNightly(err.what)
    /\ \A v \in AssetNames : ~SharedStable(v)

(***************************************************************************)
(* C6: every entry of a returned registry is a full document that passed   *)
(* the full schema, under its own name: no partial, no document still      *)
(* carrying an extends.  The code returns an extended document whose       *)
(* extends array is empty as it is.                                        *)
(***************************************************************************)
C6_OnlyFullDocuments ==
    /\ Returned =>
         /\ err = NoErr
         /\ \A n \in DOMAIN loaded :
              /\ preParsed[n].kind = "full"
              /\ preParsed[n].name = n
              /\ buildSchemaIssue(loaded[n]) = Undef
              /\ loaded[n].partial = Undef
              /\ ~loaded[n].extends.set
    /\ pc = "failed" => err # NoErr

(***************************************************************************)
(* C7: whenever mergeExtension reads a parent from the registry, the       *)
(* parent exists and is not a partial, and a missing parent is reported    *)
(* by the reference error, never by another exception.                     *)
(***************************************************************************)
C7_ParentCheckedBeforeUse ==
    /\ (pc = "merge" /\ Top.k < Len(Top.build.extends.names)) =>
          /\ TopParent \in DOMAIN preParsed
          /\ preParsed[TopParent].kind # "partial"
    /\ err.kind # "syntax_error"

(***************************************************************************)
(* C8: the registry entry of an extended document always has that          *)
(* document's own meta, active and only, unset where it left them unset.   *)
(***************************************************************************)
OwnMetaActiveOnly(n, build) ==
    /\ build.meta = Own(n).meta
    /\ build.active = Own(n).active
    /\ build.only = Own(n).only

CoreFields == {"board_env", "repo", "path", "stable_branch", "nightly_branch"}
FieldOf(build, f) == IF f = "board_env" THEN build.board_env ELSE build.based_on[f]

RECURSIVE LastSet(_)
LastSet(values) ==
    IF values = <<>> THEN Undef
    ELSE IF values[Len(values)] # Undef THEN values[Len(values)]
    ELSE LastSet(SubSeq(values, 1, Len(values) - 1))

ExpectedField(d, f) ==
    LastSet([k \in DOMAIN Parents(d) |-> FieldOf(loaded[Parents(d)[k]], f)]
            \o <<FieldOf(Own(d), f)>>)

C9_FallbackPerField ==
    Returned =>
      \A d \in DOMAIN loaded :
        (OwnKind(d) = "extended" /\ Parents(d) # <<>>
           /\ Range(Parents(d)) \subseteq DOMAIN loaded) =>
          \A f \in CoreFields : FieldOf(loaded[d], f) = ExpectedField(d, f)

\* a returned child of one parent that took board_env and path from the
\* parent and kept its own repo
C9_Witness ==
    /\ Returned
    /\ \E d \in DOMAIN loaded :
          /\ OwnKind(d) = "extended" /\ ~Own(d).extends.isArray
          /\ Parents(d)[1] \in DOMAIN loaded
          /\ Own(d).board_env = Undef
          /\ loaded[d].board_env = loaded[Parents(d)[1]].board_env
          /\ Own(d).based_on.path = Undef
          /\ loaded[d].based_on.path = loaded[Parents(d)[1]].based_on.path
          /\ Own(d).based_on.repo # Undef
          /\ loaded[d].based_on.repo = Own(d).based_on.repo
          /\ loaded[d].based_on.repo # loaded[Parents(d)[1]].based_on.repo

(***************************************************************************)
(* C10: when every input build names each option at most once per array,   *)
(* so does every document of the returned registry, a bare name and a pair *)
(* of the same name counting as one name.  The code appends a bare enable  *)
(* next to a pair of the same name.                                        *)
(***************************************************************************)
C10_OneEntryPerName ==
    (Returned /\ InputsListOnce) =>
      \A n \in DOMAIN loaded : \A t \in Types :
        DistinctNames(loaded[n][t].enable) /\ NoRepeat(loaded[n][t].disable)

(***************************************************************************)
(* C11: resolving extended documents never changes the registry entry of a *)
(* full document: while the extension pass runs, every full document has   *)
(* the entry it had when partial inclusion ended, and the entry returned   *)
(* for it is that entry after its own self-check.                          *)
(***************************************************************************)
C11_ParentIsolation ==
    /\ pc \in {"extend", "merge"} =>
          \A n \in DOMAIN preParsed :
              OwnKind(n) = "full" => preParsed[n] = snapshot[n]
    /\ \A n \in DOMAIN loaded :
          OwnKind(n) = "full" => loaded[n] = selfCheckBoth(snapshot[n].build)

\* a returned full document extended by two children, one directly and one
\* through a chain or directly, whose resolved option lists differ from it
C11_Witness ==
    /\ Returned
    /\ \E p, d1, d2 \in DOMAIN loaded :
          /\ OwnKind(p) = "full" /\ d1 # d2
          /\ OwnKind(d1) = "extended" /\ OwnKind(d2) = "extended"
          /\ p \in Range(Parents(d1))
          /\ p \in Range(Parents(d2)) \/ d1 \in Range(Parents(d2))
          /\ loaded[d1].configuration # loaded[p].configuration
          /\ loaded[d2].configuration # loaded[p].configuration

(***************************************************************************)
(* C12: classification.  FailedAtPreparse is the fatal schema error of     *)
(* preparseBuilds; Classified is the moment the registry holds the         *)
(* documents as classified, before any merge.                              *)
(***************************************************************************)
FailedAtPreparse == pc = "failed" /\ keys = <<>> /\ err.kind = "schema"
Classified == pc = "include"

\* the issue the schema of the given kind reports on a raw build
IssueOfKind(kind, build) ==
    CASE kind = "partial" -> partialBuildSchemaIssue(build)
      [] kind = "extended" -> extendedBuildSchemaIssue(build)
      [] OTHER -> buildSchemaIssue(build)

\* C12 as stated: a build is Partial exactly when it carries partial: true,
\* otherwise Extended exactly when it has an extends key, otherwise Full,
\* and only the schema of that kind decides whether it is accepted.
KindByPartialTrue(build) ==
    IF build.partial = "true" THEN "partial"
    ELSE IF build.extends.set THEN "extended" ELSE "full"

C12_ClassifiedByPartialTrue ==
    /\ Classified =>
          \A n \in DOMAIN preParsed :
              /\ preParsed[n].kind = KindByPartialTrue(Own(n))
              /\ IssueOfKind(KindByPartialTrue(Own(n)), Own(n)) = Undef
    /\ FailedAtPreparse =>
          IssueOfKind(KindByPartialTrue(Own(err.build)), Own(err.build)) = err.what

\* C12 as amended: a build is Partial exactly when it has a partial key,
\* whatever the value, otherwise Extended exactly when it has an extends
\* key, otherwise Full; only the schema of that kind decides, so a build
\* whose partial is not true is rejected with a schema error on partial.
KindByPartialKey(build) ==
    IF build.partial # Undef THEN "partial"
    ELSE IF build.extends.set THEN "extended" ELSE "full"

C12_ClassifiedByPartialKey ==
    /\ Classified =>
          \A n \in DOMAIN preParsed :
              /\ preParsed[n].kind = KindByPartialKey(Own(n))
              /\ IssueOfKind(KindByPartialKey(Own(n)), Own(n)) = Undef
              /\ (Own(n).partial = "true" /\ Own(n).extends.set) =>
                     preParsed[n].kind = "partial"
    /\ FailedAtPreparse =>
          /\ IssueOfKind(KindByPartialKey(Own(err.build)), Own(err.build)) = err.what
          /\ Own(err.build).partial \notin {Undef, "true"} => err.what = "partial"
    /\ pc \notin {"preparse", "failed"} =>
          \A n \in DOMAIN preLoaded : Own(n).partial \in {Undef, "true"}

\* a build with partial: false that the full schema would accept is
\* rejected by the partial schema
C12_Witness ==
    /\ FailedAtPreparse
    /\ err.what = "partial"
    /\ Own(err.build).partial = "false"
    /\ ~Own(err.build).extends.set
    /\ buildSchemaIssue(Own(err.build)) = Undef

(***************************************************************************)
(* C13: in one run of loadBuilds the call of mergeExtension runs to its    *)
(* end at most once for each document: no document is merged with its      *)
(* parents a second time.  The top-level pass iterates the entries as they *)
(* were when it began, so it resolves again a document already resolved as *)
(* the parent of an earlier one.                                           *)
(***************************************************************************)
EmptyExtends(n) == OwnKind(n) = "extended" /\ Parents(n) = <<>>

C13_MergedAtMostOnce ==
    (\A n \in DOMAIN preLoaded : ~EmptyExtends(n)) => NoRepeat(mergeLog)

(***************************************************************************)
(* C14: fixConfigurationConflicts(A, B) on distinct documents is pure      *)
(* filtering.  Seen where the result is kept as it is: when a document D   *)
(* includes a partial P, the registry entry of P afterwards has P's        *)
(* enable entries without those named in D's disable, and P's disable      *)
(* without the names D enables, the rest in its order, in both option      *)
(* sets.  The code splices by stale indexes and removes other entries as   *)
(* soon as two names conflict.                                             *)
(***************************************************************************)
FilterEnable(enable, names) == SelectSeq(enable, LAMBDA e : e.name \notin names)
FilterDisable(disable, names) == SelectSeq(disable, LAMBDA x : x \notin names)

Filtered(a, b) ==
    [enable |-> FilterEnable(a.enable, Range(b.disable)),
     disable |-> FilterDisable(a.disable, Range(EnableNames(b.enable)))]

C14_ReconcileIsFiltering ==
    [][(pc = "include" /\ j' = j + 1) =>
          LET d == keys[i]
              p == preParsed[d].build.include.names[j]
          IN p # d =>
             \A t \in Types :
                preParsed'[p].build[t] =
                    Filtered(preParsed[p].build[t], preParsed[d].build[t])]_vars

(***************************************************************************)
(* C15: cycles of extends.  A document is on a cycle when following        *)
(* extends from it, through extended documents, leads back to it.          *)
(***************************************************************************)
ExtendsEdge(n, m) ==
    /\ n \in DOMAIN preLoaded /\ m \in DOMAIN preLoaded
    /\ OwnKind(n) = "extended" /\ OwnKind(m) = "extended"
    /\ m \in Range(Parents(n))

RECURSIVE ReachesIn(_, _, _)
ReachesIn(n, m, steps) ==
    /\ steps > 0
    /\ \/ ExtendsEdge(n, m)
       \/ \E x \in DOMAIN preLoaded :
             ExtendsEdge(n, x) /\ ReachesIn(x, m, steps - 1)

CycleMembers ==
    {n \in DOMAIN preLoaded : ReachesIn(n, n, Cardinality(DOMAIN preLoaded))}

\* mergeExtension has been called for a document on a cycle
CycleReached == \E k \in DOMAIN stack : stack[k].buildName \in CycleMembers

Active == {stack[k].buildName : k \in DOMAIN stack}

CycleClosed ==
    \/ \E a, b \in DOMAIN stack : a # b /\ stack[a].buildName = stack[b].buildName
    \/ /\ stack # <<>>
       /\ Top.k < Len(Top.build.extends.names)
       /\ TopParent \in Active
       /\ TopParent \in DOMAIN preParsed
       /\ preParsed[TopParent].kind = "extended"

Terminated == pc \in {"done", "failed"}

IncludesPartial(n, m) ==
    /\ Own(n).include.set /\ ~Own(n).include.isArray
    /\ Own(n).include.names = <<m>>
    /\ m \in DOMAIN preLoaded /\ m # n
    /\ OwnKind(m) = "partial"

C16_NestedPartialReachesIncluder ==
    Returned =>
      \A d \in DOMAIN loaded : \A p1, p2 \in DOMAIN preLoaded :
        (OwnKind(d) = "full" /\ IncludesPartial(d, p1) /\ IncludesPartial(p1, p2)
           /\ p2 # d /\ ~Own(p2).include.set) =>
          \A t \in Types : \A x \in OptionNames :
            (ListsOnce(Own(p2)[t], x) /\ ~Lists(Own(p1)[t], x)
               /\ ~Lists(Own(d)[t], x)) =>
              SameSetting(Own(p2)[t], loaded[d][t], x)

(***************************************************************************)
(* C17: what a build D2 receives from a partial P does not depend on the   *)
(* other builds that include P: the returned D2 is what the run gives in   *)
(* which D2 alone includes P, that is P as written merged into D2 as       *)
(* written and then self-checked; and an option P lists once and D2 does   *)
(* not list has P's setting in D2.  The code removes from the shared P the *)
(* entries an earlier includer overrides.                                  *)
(***************************************************************************)
AloneWith(d2, p) ==
    selfCheckBoth(IncludingBuild(PreparseOne(p, Own(p)).build, Own(d2), FALSE))

C17_SharedPartialIndependent ==
    Returned =>
      \A d2 \in DOMAIN loaded : \A p \in DOMAIN preLoaded :
        (OwnKind(d2) = "full" /\ IncludesPartial(d2, p) /\ ~Own(p).include.set) =>
          /\ loaded[d2] = AloneWith(d2, p)
          /\ \A t \in Types : \A x \in OptionNames :
                (ListsOnce(Own(p)[t], x) /\ ~Lists(Own(d2)[t], x)) =>
                   SameSetting(Own(p)[t], loaded[d2][t], x)

(***************************************************************************)
(* C18: the min_version of a returned extended document is the resolved    *)
(* min_version of its single or first-listed parent, unset when that       *)
(* parent has none, whatever the document itself and its later parents     *)
(* declare.                                                                *)
(***************************************************************************)
C18_MinVersionOfFirstParent ==
    Returned =>
      \A d \in DOMAIN loaded :
        (OwnKind(d) = "extended" /\ Parents(d) # <<>>) =>
          /\ Parents(d)[1] \in DOMAIN loaded
          /\ loaded[d].min_version = loaded[Parents(d)[1]].min_version

\* a returned document that declares a min_version and extends a first
\* parent without one and a second parent with one: it has none
C18_Witness ==
    /\ Returned
    /\ \E d \in DOMAIN loaded :
          /\ OwnKind(d) = "extended" /\ Len(Parents(d)) = 2
          /\ Own(d).min_version # Undef
          /\ Own(Parents(d)[1]).min_version = Undef
          /\ Own(Parents(d)[2]).min_version # Undef
          /\ loaded[d].min_version = Undef

=============================================================================
